---------------------------- MODULE Spec2Model ----------------------------
(***************************************************************************)
(* A model of the load tester's submission and confirmation engine:        *)
(* TransactionSender (src/src/lib/transaction-sender.ts) and LoadTester    *)
(* (src/src/lib/load-tester.ts).                                           *)
(*                                                                         *)
(* The program runs on one JavaScript event loop.  Every action below is   *)
(* one task of that loop: a public call, a timer callback or the           *)
(* completion of one network request, together with every continuation     *)
(* that the promises it settles release (those run as microtasks, before   *)
(* any other task).  Each accepted startLoadTest() call is an activation   *)
(* with its own locals (pc, loopI, results, ...); the fields of the        *)
(* LoadTester and of the TransactionSender are shared by all of them.      *)
(*                                                                         *)
(* Date.now() is the variable now, read in whole ticks of ClockStep ms.    *)
(* Fields of TransactionResult and LoadTestMetrics that nothing modelled   *)
(* here reads (timestamp, gasPrice text, blockHash, totalCost,             *)
(* averageConfirmationTime) are left out.  An optional field is a set:     *)
(* {} when undefined, {v} when set to v.                                   *)
(***************************************************************************)
EXTENDS Integers, Sequences, FiniteSets, TLC

\* ------------------------------------------------------------- bounds --
\* the largest transactionCount and concurrency a config is drawn with
MaxCount == 3
MaxConcurrency == 2
\* accepted startLoadTest() calls per behaviour
MaxRuns == 2
\* transactions all activations of a behaviour submit together, once there
\* is more than one activation
MaxSubmissions == 2
\* transactions per run times steps of the clock: a behaviour with many
\* transactions is a short one
MaxWork == 2
\* activations times readings of the clock: a behaviour with many
\* activations is a short one
MaxLoad == 6
\* length of the snapshot ring; stands for the 100 of load-tester.ts:232,
\* scaled so that a behaviour can overflow it
SnapshotLimit == 1
\* the highest block a receipt is drawn with (0 is the first block)
MaxBlock == 1
\* iterations of the dispatch loop an activation is followed through
MaxBatches == 4

\* ---------------------------------------------------------- constants --
\* ms between two readings of the clock: the period of setInterval
ClockStep == 1000
\* gas a transfer uses: the receipt's gasUsed
TransferGas == 21000

Runs == 1..MaxRuns

VARIABLES
  config,        \* LoadTester.config (read-only after construction)
  now,           \* Date.now()
  nonce,         \* TransactionSender.nonce
  isRunning,     \* LoadTester.isRunning
  startTime,     \* LoadTester.startTime
  endTime,       \* LoadTester.endTime
  metrics,       \* LoadTester.metrics
  tpsSnapshots,  \* LoadTester.tpsSnapshots
  starts,        \* number of startLoadTest() calls accepted so far
  pc,            \* per activation: where startLoadTest() stands
  loopI,         \* per activation: i of executeConcurrentTransactions
  results,       \* per activation: results of executeConcurrentTransactions
  batch,         \* per activation: the promises of sendBatchTransactions
  waits,         \* per activation: the promises of waitForBatchConfirmations
  monitoring,    \* per activation: monitoringInterval is set and not cleared
  nextTick,      \* per activation: when the interval fires next
  assigned,      \* history: nonces put into a transaction request, in issue order
  batchLog,      \* history, per activation: currentBatchSize of every iteration
  pauses,        \* history, per activation: number of sleep(100) calls
  ticked,        \* history, per activation: tps of every snapshot its interval took
  stopped,       \* history: the activations a stopLoadTest() found running
  events         \* history: what the latest task did, in order (see Event)

vars == <<config, now, nonce, isRunning, startTime, endTime, metrics,
          tpsSnapshots, starts, pc, loopI, results, batch, waits, monitoring,
          nextTick, assigned, batchLog, pauses, ticked, stopped, events>>

\* the fields of the LoadTester and its sender: all that a call can change
programVars == <<config, nonce, isRunning, startTime, endTime, metrics,
                 tpsSnapshots, starts, pc, loopI, results, batch, waits,
                 monitoring, nextTick>>

\* ------------------------------------------------------------ numbers --
Min(a, b) == IF a < b THEN a ELSE b

\* steps the clock has taken
Steps == (now \div ClockStep) - 1

RECURSIVE GCD(_, _)
GCD(a, b) == IF b = 0 THEN a ELSE GCD(b, a % b)

\* a / b as JavaScript computes it for b > 0: an exact quotient in lowest
\* terms (equal quotients are equal numbers)
Quotient(a, b) == LET g == GCD(a, b) IN
  IF a = 0 THEN [num |-> 0, den |-> 1] ELSE [num |-> a \div g, den |-> b \div g]

Zero == Quotient(0, 1)

Leq(p, q) == p.num * q.den <= q.num * p.den

\* Math.max over a sequence of numbers and 0
RECURSIVE MaxOf(_)
MaxOf(s) == IF s = <<>> THEN Zero
            ELSE LET m == MaxOf(Tail(s)) IN IF Leq(m, Head(s)) THEN Head(s) ELSE m

Count(s, st) == Len(SelectSeq(s, LAMBDA t : t.status = st))

\* ------------------------------------------------------------- config --
\* value and gasPrice are texts: "bad" is one that parseEther, parseUnits
\* rejects; a usable gasPrice is a parseable one or none (getFeeData is
\* awaited instead, which adds a way for the submission to fail)
Configs ==
  [transactionCount : 0..MaxCount,
   concurrency      : 1..MaxConcurrency,
   value            : {"ok", "bad"},
   gasPrice         : {"usable", "bad"},
   realTimeStats    : BOOLEAN]

\* the configs startLoadTest() runs with: nothing checks the config, so a
\* concurrency of 0 or less is among them
AcceptedConfigs ==
  [transactionCount : 0..MaxCount,
   concurrency      : {-1, 0} \cup 1..MaxConcurrency,
   value            : {"ok", "bad"},
   gasPrice         : {"usable", "bad"},
   realTimeStats    : BOOLEAN]

\* what a rejected promise or a throw can carry: an Error with its message
\* (the transport's errors carry one), or a value that is no Error
Thrown == {[isError |-> TRUE, message |-> "rpc error"],
           [isError |-> FALSE, message |-> ""]}

\* error instanceof Error ? error.message : fallback
ErrorText(e, fallback) == IF e.isError THEN e.message ELSE fallback

\* tx.hash: the identifier of the transaction signed with nonce n; "" is 0
HashOf(n) == n + 1

createInitialMetrics ==
  [totalTransactions |-> 0, successfulTransactions |-> 0,
   failedTransactions |-> 0, pendingTransactions |-> 0,
   averageTPS |-> Zero, peakTPS |-> Zero, totalDuration |-> 0,
   startTime |-> 0, endTime |-> 0,
   gasUsedTotal |-> 0, blockNumbers |-> <<>>, uniqueBlocks |-> 0]

\* -------------------------------------------------- TransactionSender --
\* this.nonce++ : the value read and the counter afterwards
\* (the slip C1 is checked against: the counter is read and not advanced)
PostIncrementStale(n) == [value |-> n, next |-> n]
PostIncrement(n) == [value |-> n, next |-> n + 1]

\* the catch block of sendTransaction
\* (the slip C6 is checked against: the error text is left out)
SubmitFailedMissingError(e, drawn) ==
  [nonce |-> drawn, hash |-> 0, status |-> "failed", error |-> {}]
SubmitFailed(e, drawn) ==
  [nonce |-> drawn, hash |-> 0, status |-> "failed",
   error |-> {ErrorText(e, "Unknown error")}]

\* the return after wallet.sendTransaction resolved
SubmitPending(n) ==
  [nonce |-> {n}, hash |-> HashOf(n), status |-> "pending", error |-> {}]

\* sendTransaction up to its first await, with the counter at n: the
\* request literal evaluates parseEther(value) before this.nonce++, and
\* parseUnits(gasPrice) after it; a throw of either ends in the catch block
SendTransactionSync(n) ==
  IF config.value = "bad"
  THEN [tx |-> SubmitFailed([isError |-> TRUE, message |-> "invalid value"], {}),
        next |-> n, drawn |-> <<>>]
  ELSE LET d == PostIncrement(n) IN
       IF config.gasPrice = "bad"
       THEN [tx |-> SubmitFailed([isError |-> TRUE, message |-> "invalid gas price"],
                                 {d.value}),
             next |-> d.next, drawn |-> <<d.value>>]
       ELSE [tx |-> [nonce |-> {d.value}, hash |-> 0, status |-> "inflight",
                     error |-> {}],
             next |-> d.next, drawn |-> <<d.value>>]

\* sendBatchTransactions(count) with the counter at n: count calls of
\* sendTransaction, each run to its first await, in order
RECURSIVE SendBatchTransactions(_, _)
SendBatchTransactions(n, count) ==
  IF count <= 0 THEN [txs |-> <<>>, next |-> n, drawn |-> <<>>]
  ELSE LET one  == SendTransactionSync(n)
           rest == SendBatchTransactions(one.next, count - 1)
       IN [txs |-> <<one.tx>> \o rest.txs, next |-> rest.next,
           drawn |-> one.drawn \o rest.drawn]

\* waitForConfirmation's results, for a wait on hash h started at time t0.
\* via and at are history: how provider.waitForTransaction settled (with a
\* receipt, with null, or by throwing: its timeout or a transport error)
\* and when.
\* the latest block of the chain: its first block (number 0) when the
\* tester is constructed, one more with every step of the clock
ChainHead == Min(Steps, MaxBlock)

\* the receipts provider.waitForTransaction can return: of a transaction
\* that succeeded or reverted, in a block the chain has
Receipts ==
  [status : {0, 1}, blockNumber : 0..ChainHead, gasUsed : {TransferGas}]

ConfirmedByReceipt(h, t0, receipt) ==
  [hash |-> h, start |-> t0, via |-> "receipt", at |-> now,
   status |-> IF receipt.status = 1 THEN "success" ELSE "failed",
   error |-> {}, confirmationTime |-> {now - t0},
   gasUsed |-> {receipt.gasUsed}, blockNumber |-> {receipt.blockNumber}]

ReceiptNotFound(h, t0) ==
  [hash |-> h, start |-> t0, via |-> "null", at |-> now, status |-> "failed",
   error |-> {"Transaction receipt not found"}, confirmationTime |-> {},
   gasUsed |-> {}, blockNumber |-> {}]

\* (the slip C7 is checked against: the catch block records no latency)
ConfirmThrewNoLatency(h, t0, e) ==
  [hash |-> h, start |-> t0, via |-> "threw", at |-> now, status |-> "failed",
   error |-> {ErrorText(e, "Confirmation timeout")}, confirmationTime |-> {},
   gasUsed |-> {}, blockNumber |-> {}]
ConfirmThrew(h, t0, e) ==
  [hash |-> h, start |-> t0, via |-> "threw", at |-> now, status |-> "failed",
   error |-> {ErrorText(e, "Confirmation timeout")},
   confirmationTime |-> {now - t0}, gasUsed |-> {}, blockNumber |-> {}]

\* waitForConfirmation up to its await
Waiting(h) ==
  [hash |-> h, start |-> now, via |-> "", at |-> 0, status |-> "waiting",
   error |-> {}, confirmationTime |-> {}, gasUsed |-> {}, blockNumber |-> {}]

\* --------------------------------------------------------- LoadTester --
\* Math.min(batchSize, totalTransactions - i)
\* (the slip C5 is checked against: the last batch is not cut to what remains)
CurrentBatchSizeNoMin(i) == config.concurrency
CurrentBatchSize(i) == Min(config.concurrency, config.transactionCount - i)

\* the counters after a batch resolved (lines 162 to 166)
CountBatch(m, size, txs) ==
  [m EXCEPT !.totalTransactions = @ + size,
            !.pendingTransactions = @ + Count(txs, "pending"),
            !.failedTransactions = @ + Count(txs, "failed")]

\* if (x) for an optional number x: undefined and 0 are both falsy
Truthy(x) == x # {} /\ 0 \notin x

\* the gas lines 200 to 202 add and the block numbers lines 204 to 206
\* push, over the confirmation results ws in order
RECURSIVE GasOf(_), BlocksOf(_)
GasOf(ws) ==
  IF ws = <<>> THEN 0
  ELSE LET w == Head(ws) IN
       (IF w.status = "success" /\ Truthy(w.gasUsed)
        THEN CHOOSE g \in w.gasUsed : TRUE ELSE 0) + GasOf(Tail(ws))
BlocksOf(ws) ==
  IF ws = <<>> THEN <<>>
  ELSE LET w == Head(ws) IN
       (IF w.status = "success" /\ Truthy(w.blockNumber)
        THEN <<CHOOSE b \in w.blockNumber : TRUE>> ELSE <<>>) \o BlocksOf(Tail(ws))

\* the counters after the confirmations resolved (lines 196 to 211)
\* (the slip C27 is checked against: a failure is not taken off pending)
CountConfirmationsKeepsPending(m, ws) ==
  [m EXCEPT !.successfulTransactions = @ + Count(ws, "success"),
            !.failedTransactions = @ + Count(ws, "failed"),
            !.pendingTransactions = @ - Count(ws, "success"),
            !.gasUsedTotal = @ + GasOf(ws),
            !.blockNumbers = @ \o BlocksOf(ws)]
CountConfirmations(m, ws) ==
  [m EXCEPT !.successfulTransactions = @ + Count(ws, "success"),
            !.failedTransactions = @ + Count(ws, "failed"),
            !.pendingTransactions = @ - Count(ws, "success") - Count(ws, "failed"),
            !.gasUsedTotal = @ + GasOf(ws),
            !.blockNumbers = @ \o BlocksOf(ws)]

\* the snapshot updateTpsSnapshot takes
Snapshot ==
  LET timeElapsed == (now - startTime) \div ClockStep IN
  [timestamp |-> now,
   tps |-> IF timeElapsed > 0
           THEN Quotient(metrics.successfulTransactions, timeElapsed)
           ELSE Zero,
   successCount |-> metrics.successfulTransactions,
   failureCount |-> metrics.failedTransactions]

\* push, then shift once the ring exceeds its bound
\* (the slip C23 is checked against: the newest snapshot is dropped, not the
\* oldest)
PushSnapshotPops(ring, s) ==
  LET pushed == Append(ring, s) IN
  IF Len(pushed) > SnapshotLimit THEN SubSeq(pushed, 1, Len(pushed) - 1) ELSE pushed
PushSnapshot(ring, s) ==
  LET pushed == Append(ring, s) IN
  IF Len(pushed) > SnapshotLimit THEN Tail(pushed) ELSE pushed

TpsOf(ring) == [k \in 1..Len(ring) |-> ring[k].tps]

\* Math.max(...this.tpsSnapshots.map(s => s.tps), 0)
PeakTPS(ring) == MaxOf(TpsOf(ring))

\* calculateFinalMetrics on metrics m, with this.startTime and this.endTime
calculateFinalMetrics(m, start, end) ==
  LET duration == end - start IN
  [m EXCEPT !.totalDuration = duration,
            !.averageTPS = IF duration > 0
                           THEN Quotient(m.successfulTransactions * 1000, duration)
                           ELSE @,
            !.peakTPS = PeakTPS(tpsSnapshots),
            !.uniqueBlocks =
               Cardinality({m.blockNumbers[k] : k \in DOMAIN m.blockNumbers})]

\* a behaviour with this many activations and steps of the clock is within
\* the bounds
WithinBounds(activations, steps) ==
  /\ activations <= MaxRuns
  /\ activations > 1 => activations * config.transactionCount <= MaxSubmissions
  /\ config.transactionCount * steps <= MaxWork
  /\ activations * (1 + steps) <= MaxLoad

\* ------------------------------------------- the code of an activation --
\* What a task did is kept, until the next task, as a sequence of events:
\*   "accepted"      startLoadTest() passed line 90
\*   "threw"         startLoadTest() threw at line 89
\*   "issued"        sendBatchTransactions was called; items: the batch as
\*                   it stands at the await
\*   "counted"       lines 161 to 166 ran for a batch; items: its outcomes
\*   "dispatched"    executeConcurrentTransactions returned; items: results
\*   "confirmations" lines 196 to 211 ran; items: the confirmation outcomes
\*   "completed"     emit('completed', this.metrics)
\*   "returned"      return this.metrics
\*   "stats"         emit('stats', ...) after updateTpsSnapshot
\*   "stopped"       emit('stopped', this.metrics)
\*   "ignored"       stopLoadTest() returned at line 296
\*   "metrics"       getMetrics() returned its copy
\* with the activation, this.metrics before and after the code the event
\* stands for, and the outcomes it handled.
Event(type, run, before, after, items) ==
  [type |-> type, run |-> run, before |-> before, metrics |-> after,
   items |-> items]

\* What one task does to activation r is computed on a record X of
\* everything the code of startLoadTest and its callees can write: r's
\* locals and history, and the shared fields.
Cur(r) ==
  [run |-> r, pc |-> pc[r], loopI |-> loopI[r], results |-> results[r],
   batch |-> batch[r], waits |-> waits[r], monitoring |-> monitoring[r],
   batchLog |-> batchLog[r], pauses |-> pauses[r],
   nonce |-> nonce, assigned |-> assigned, metrics |-> metrics,
   isRunning |-> isRunning, startTime |-> startTime, endTime |-> endTime,
   events |-> <<>>]

\* F(x), with x computed once and not wherever F reads its argument
At(F(_), x) == CHOOSE z \in {F(y) : y \in {x}} : TRUE

Apply(r, X0) == \E X \in {X0} :
  /\ pc' = [pc EXCEPT ![r] = X.pc]
  /\ loopI' = [loopI EXCEPT ![r] = X.loopI]
  /\ results' = [results EXCEPT ![r] = X.results]
  /\ batch' = [batch EXCEPT ![r] = X.batch]
  /\ waits' = [waits EXCEPT ![r] = X.waits]
  /\ monitoring' = [monitoring EXCEPT ![r] = X.monitoring]
  /\ batchLog' = [batchLog EXCEPT ![r] = X.batchLog]
  /\ pauses' = [pauses EXCEPT ![r] = X.pauses]
  /\ nonce' = X.nonce
  /\ assigned' = X.assigned
  /\ metrics' = X.metrics
  /\ isRunning' = X.isRunning
  /\ startTime' = X.startTime
  /\ endTime' = X.endTime
  /\ events' = X.events

\* (the slip C19 is checked against: the promises are not awaited)
SettledEager(promises, open) == TRUE
Settled(promises, open) ==
  \A k \in 1..Len(promises) : promises[k].status # open

\* startLoadTest, lines 121 to 131: the end of the run, the completion
\* event and the return of this.metrics
\* (the slip C25 is checked against: the flag is left set)
FinishRunStaysRunning(X) ==
  LET m == calculateFinalMetrics([X.metrics EXCEPT !.endTime = now],
                                 X.startTime, now)
  IN [X EXCEPT !.endTime = now, !.metrics = m,
               !.pc = "returned",
               !.events = @ \o <<Event("completed", X.run, X.metrics, m, <<>>),
                                 Event("returned", X.run, X.metrics, m, <<>>)>>]
FinishRun(X) ==
  LET m == calculateFinalMetrics([X.metrics EXCEPT !.endTime = now],
                                 X.startTime, now)
  IN [X EXCEPT !.endTime = now, !.isRunning = FALSE, !.metrics = m,
               !.pc = "returned",
               !.events = @ \o <<Event("completed", X.run, X.metrics, m, <<>>),
                                 Event("returned", X.run, X.metrics, m, <<>>)>>]

\* waitForAllConfirmations, lines 195 to 212, once the confirmations are in
\* (the promises are dropped with the frame)
AfterConfirmations(X) ==
  LET m == CountConfirmations(X.metrics, X.waits) IN
  At(FinishRun, [X EXCEPT !.metrics = m, !.waits = <<>>,
                      !.events = @ \o <<Event("confirmations", X.run, X.metrics,
                                              m, X.waits)>>])

\* startLoadTest, lines 113 to 119, with the results of the dispatch:
\* clearInterval, then waitForAllConfirmations down to its await, or
\* through its return at line 184 when nothing is pending (results is not
\* read again and is dropped)
\* (the slip C21 is checked against: a wait is started for every result)
AfterDispatchWaitsForAll(X) ==
  LET pendingTxs == SelectSeq(X.results, LAMBDA t : t.status = "pending")
      Y == [X EXCEPT !.monitoring = FALSE, !.results = <<>>,
                     !.events = @ \o <<Event("dispatched", X.run, X.metrics,
                                             X.metrics, X.results)>>]
  IN IF pendingTxs = <<>>
     THEN At(FinishRun, Y)
     ELSE [Y EXCEPT !.pc = "confirm",
                    !.waits = [k \in 1..Len(X.results) |->
                                 Waiting(X.results[k].hash)]]
AfterDispatch(X) ==
  LET pendingTxs == SelectSeq(X.results, LAMBDA t : t.status = "pending")
      Y == [X EXCEPT !.monitoring = FALSE, !.results = <<>>,
                     !.events = @ \o <<Event("dispatched", X.run, X.metrics,
                                             X.metrics, X.results)>>]
  IN IF pendingTxs = <<>>
     THEN At(FinishRun, Y)
     ELSE [Y EXCEPT !.pc = "confirm",
                    !.waits = [k \in 1..Len(pendingTxs) |->
                                 Waiting(pendingTxs[k].hash)]]

\* executeConcurrentTransactions: LoopHead is the loop from its test (line
\* 148) to the await of the batch, AfterBatch the rest of the body (lines
\* 161 to 171) once the batch is in.  A batch whose submissions all failed
\* before their first await is in at once.
RECURSIVE LoopHead(_), AfterBatch(_)
LoopHead(X) ==
  IF X.loopI < config.transactionCount
  THEN LET size == CurrentBatchSize(X.loopI)
           sent == SendBatchTransactions(X.nonce, size)
           Y == [X EXCEPT !.pc = "batch", !.batch = sent.txs,
                          !.nonce = sent.next,
                          !.assigned = @ \o sent.drawn,
                          !.batchLog = Append(@, size),
                          !.events = @ \o <<Event("issued", X.run, X.metrics,
                                                  X.metrics, sent.txs)>>]
       IN IF Settled(sent.txs, "inflight") THEN At(AfterBatch, Y) ELSE Y
  ELSE At(AfterDispatch, X)

\* (the slip C20 is checked against: results is assigned, not appended to)
AfterBatchKeepsLast(X) ==
  LET m == CountBatch(X.metrics, CurrentBatchSize(X.loopI), X.batch)
      Y == [X EXCEPT !.results = X.batch, !.metrics = m, !.batch = <<>>,
                     !.events = @ \o <<Event("counted", X.run, X.metrics, m,
                                             X.batch)>>]
  IN IF X.loopI + config.concurrency < config.transactionCount
     THEN [Y EXCEPT !.pc = "sleep", !.pauses = @ + 1]
     ELSE At(LoopHead, [Y EXCEPT !.loopI = @ + config.concurrency])
AfterBatch(X) ==
  LET m == CountBatch(X.metrics, CurrentBatchSize(X.loopI), X.batch)
      Y == [X EXCEPT !.results = @ \o X.batch, !.metrics = m, !.batch = <<>>,
                     !.events = @ \o <<Event("counted", X.run, X.metrics, m,
                                             X.batch)>>]
  IN IF X.loopI + config.concurrency < config.transactionCount
     THEN [Y EXCEPT !.pc = "sleep", !.pauses = @ + 1]
     ELSE At(LoopHead, [Y EXCEPT !.loopI = @ + config.concurrency])

\* what the caller of an activation that has returned reads in the value it
\* was given: startLoadTest returns this.metrics, the object itself and no
\* copy, so it reads the fields as they are now
ReturnedValue == metrics

\* --------------------------------------------------------------- Init --
\* the tester and its sender after construction
Constructed ==
  /\ now = ClockStep
  /\ nonce = 0
  /\ isRunning = FALSE
  /\ startTime = 0
  /\ endTime = 0
  /\ metrics = createInitialMetrics
  /\ tpsSnapshots = <<>>
  /\ starts = 0
  /\ pc = [r \in Runs |-> "idle"]
  /\ loopI = [r \in Runs |-> 0]
  /\ results = [r \in Runs |-> <<>>]
  /\ batch = [r \in Runs |-> <<>>]
  /\ waits = [r \in Runs |-> <<>>]
  /\ monitoring = [r \in Runs |-> FALSE]
  /\ nextTick = [r \in Runs |-> 0]
  /\ assigned = <<>>
  /\ batchLog = [r \in Runs |-> <<>>]
  /\ pauses = [r \in Runs |-> 0]
  /\ ticked = [r \in Runs |-> {}]
  /\ stopped = {}
  /\ events = <<>>

\* a config within the invariant of RunConfig
Init == config \in Configs /\ Constructed

\* any config startLoadTest() runs with
InitAccepted == config \in AcceptedConfigs /\ Constructed

\* ------------------------------------------------------------ actions --
\* startLoadTest() while isRunning: line 89 throws before anything is set
\* (the slip C4 is checked against: the start time is set before the test)
StartRejectedLate ==
  /\ isRunning
  /\ startTime' = now
  /\ metrics' = [metrics EXCEPT !.startTime = now]
  /\ events' = <<Event("threw", 0, metrics, metrics', <<>>)>>
  /\ UNCHANGED <<config, now, nonce, isRunning, endTime, tpsSnapshots, starts,
                 pc, loopI, results, batch, waits, monitoring, nextTick,
                 assigned, batchLog, pauses, ticked, stopped>>
StartRejected ==
  /\ isRunning
  /\ events' = <<Event("threw", 0, metrics, metrics, <<>>)>>
  /\ UNCHANGED <<config, now, nonce, isRunning, startTime, endTime, metrics,
                 tpsSnapshots, starts, pc, loopI, results, batch, waits,
                 monitoring, nextTick, assigned, batchLog, pauses, ticked, stopped>>

\* startLoadTest() accepted: lines 92 to 111 (the flag, the start time, the
\* interval), then executeConcurrentTransactions from its first line
StartAccepted ==
  /\ ~isRunning
  /\ WithinBounds(starts + 1, Steps)
  /\ LET r == starts + 1
         m == [metrics EXCEPT !.startTime = now]
     IN
     /\ starts' = r
     /\ nextTick' = [nextTick EXCEPT ![r] = now + ClockStep]
     /\ Apply(r, LoopHead([Cur(r) EXCEPT
                             !.isRunning = TRUE,
                             !.startTime = now,
                             !.metrics = m,
                             !.monitoring = config.realTimeStats,
                             !.results = <<>>,
                             !.loopI = 0,
                             !.events = <<Event("accepted", r, metrics, m, <<>>)>>]))
  /\ UNCHANGED <<config, now, tpsSnapshots, ticked, stopped>>

startLoadTest == StartRejected \/ StartAccepted

\* a sendTransaction in flight settles: wallet.sendTransaction returned the
\* transaction, or getFeeData or wallet.sendTransaction threw; the last one
\* of a batch settles Promise.all and executeConcurrentTransactions goes on
SubmitResolves(r, k) ==
  /\ pc[r] = "batch"
  /\ k \in 1..Len(batch[r])
  /\ batch[r][k].status = "inflight"
  /\ LET n == CHOOSE x \in batch[r][k].nonce : TRUE IN
     \E tx \in {SubmitPending(n)} \cup {SubmitFailed(e, {n}) : e \in Thrown} :
        LET X == [Cur(r) EXCEPT !.batch[k] = tx] IN
        Apply(r, IF Settled(X.batch, "inflight") THEN At(AfterBatch, X) ELSE X)
  /\ UNCHANGED <<config, now, tpsSnapshots, starts, nextTick, ticked, stopped>>

\* sleep(100) is over: i += batchSize and the next iteration
\* (a loop that does not end is followed for MaxBatches iterations; with a
\* concurrency of 1 or more the loop ends before that)
SleepDone(r) ==
  /\ pc[r] = "sleep"
  /\ Len(batchLog[r]) < MaxBatches
  /\ Apply(r, At(LoopHead, [Cur(r) EXCEPT !.loopI = @ + config.concurrency]))
  /\ UNCHANGED <<config, now, tpsSnapshots, starts, nextTick, ticked, stopped>>

\* a waitForConfirmation in flight settles: provider.waitForTransaction
\* returned a receipt or null, or threw (its timeout, or a
\* transport error); the last one settles Promise.all and the run goes on
\* to its end
ConfirmResolves(r, k) ==
  /\ pc[r] = "confirm"
  /\ k \in 1..Len(waits[r])
  /\ waits[r][k].status = "waiting"
  /\ LET h == waits[r][k].hash
         t0 == waits[r][k].start
     IN \E w \in {ConfirmedByReceipt(h, t0, receipt) : receipt \in Receipts}
                 \cup {ReceiptNotFound(h, t0)}
                 \cup {ConfirmThrew(h, t0, e) : e \in Thrown} :
           LET X == [Cur(r) EXCEPT !.waits[k] = w] IN
           Apply(r, IF Settled(X.waits, "waiting")
                    THEN At(AfterConfirmations, X) ELSE X)
  /\ UNCHANGED <<config, now, tpsSnapshots, starts, nextTick, ticked, stopped>>

\* the setInterval callback of activation r: updateTpsSnapshot, then the
\* stats event with getCurrentStats() (which writes nothing)
Tick(r) ==
  /\ monitoring[r]
  /\ now >= nextTick[r]
  /\ tpsSnapshots' = PushSnapshot(tpsSnapshots, Snapshot)
  /\ nextTick' = [nextTick EXCEPT ![r] = @ + ClockStep]
  /\ ticked' = [ticked EXCEPT ![r] = @ \cup {Snapshot.tps}]
  /\ events' = <<Event("stats", r, metrics, metrics, <<>>)>>
  /\ UNCHANGED <<config, now, nonce, isRunning, startTime, endTime, metrics,
                 starts, pc, loopI, results, batch, waits, monitoring, assigned,
                 batchLog, pauses, stopped>>

\* the clock moves on; an interval that is due fires first
Advance ==
  /\ WithinBounds(IF starts = 0 THEN 1 ELSE starts, Steps + 1)
  /\ \A r \in Runs : monitoring[r] => now < nextTick[r]
  /\ now' = now + ClockStep
  /\ events' = <<>>
  /\ UNCHANGED <<config, nonce, isRunning, startTime, endTime, metrics,
                 tpsSnapshots, starts, pc, loopI, results, batch, waits,
                 monitoring, nextTick, assigned, batchLog, pauses, ticked, stopped>>

\* stopLoadTest()
\* (isRunning is set by the latest activation only, so that is the one found
\* running; a call that finds none running is recorded as "ignored")
\* (the slip C14 is checked against: the confirmation waits are dropped)
stopLoadTestCancels ==
  /\ IF ~isRunning
     THEN /\ events' = <<Event("ignored", 0, metrics, metrics, <<>>)>>
          /\ UNCHANGED <<isRunning, endTime, metrics, stopped, waits>>
     ELSE /\ isRunning' = FALSE
          /\ endTime' = now
          /\ metrics' = [metrics EXCEPT !.endTime = now]
          /\ stopped' = stopped \cup {starts}
          /\ waits' = [r \in Runs |-> <<>>]
          /\ events' = <<Event("stopped", starts, metrics, metrics', <<>>)>>
  /\ UNCHANGED <<config, now, nonce, startTime, tpsSnapshots, starts, pc, loopI,
                 results, batch, monitoring, nextTick, assigned,
                 batchLog, pauses, ticked>>
\* (the slip C16 is checked against: the end time is written before the test)
stopLoadTestUnguarded ==
  /\ endTime' = now
  /\ metrics' = [metrics EXCEPT !.endTime = now]
  /\ IF ~isRunning
     THEN /\ events' = <<Event("ignored", 0, metrics, metrics', <<>>)>>
          /\ UNCHANGED <<isRunning, stopped>>
     ELSE /\ isRunning' = FALSE
          /\ stopped' = stopped \cup {starts}
          /\ events' = <<Event("stopped", starts, metrics, metrics', <<>>)>>
  /\ UNCHANGED <<config, now, nonce, startTime, tpsSnapshots, starts, pc, loopI,
                 results, batch, waits, monitoring, nextTick, assigned,
                 batchLog, pauses, ticked>>
stopLoadTest ==
  /\ IF ~isRunning
     THEN /\ events' = <<Event("ignored", 0, metrics, metrics, <<>>)>>
          /\ UNCHANGED <<isRunning, endTime, metrics, stopped>>
     ELSE /\ isRunning' = FALSE
          /\ endTime' = now
          /\ metrics' = [metrics EXCEPT !.endTime = now]
          /\ stopped' = stopped \cup {starts}
          /\ events' = <<Event("stopped", starts, metrics, metrics', <<>>)>>
  /\ UNCHANGED <<config, now, nonce, startTime, tpsSnapshots, starts, pc, loopI,
                 results, batch, waits, monitoring, nextTick, assigned,
                 batchLog, pauses, ticked>>

\* getMetrics(): a copy of the fields of this.metrics
\* (the slip C18 is checked against: the getter finalizes before it copies)
getMetricsFinalizing ==
  /\ metrics' = calculateFinalMetrics(metrics, startTime, endTime)
  /\ events' = <<Event("metrics", 0, metrics, metrics', <<>>)>>
  /\ UNCHANGED <<config, now, nonce, isRunning, startTime, endTime,
                 tpsSnapshots, starts, pc, loopI, results, batch, waits,
                 monitoring, nextTick, assigned, batchLog, pauses, ticked,
                 stopped>>
getMetrics ==
  /\ events' = <<Event("metrics", 0, metrics, metrics, <<>>)>>
  /\ UNCHANGED <<config, now, nonce, isRunning, startTime, endTime, metrics,
                 tpsSnapshots, starts, pc, loopI, results, batch, waits,
                 monitoring, nextTick, assigned, batchLog, pauses, ticked,
                 stopped>>

Next ==
  \/ startLoadTest
  \/ stopLoadTest
  \/ getMetrics
  \/ \E r \in Runs : \E k \in 1..MaxConcurrency : SubmitResolves(r, k)
  \/ \E r \in Runs : SleepDone(r)
  \/ \E r \in Runs : \E k \in 1..MaxCount : ConfirmResolves(r, k)
  \/ \E r \in Runs : Tick(r)
  \/ Advance

Spec == Init /\ [][Next]_vars

\* Spec, where every request to the network settles (a send goes through
\* or throws, a confirmation wait returns or times out) and every timer of
\* sleep(100) fires: a task that is ready is run by the event loop
Fairness ==
  /\ \A r \in Runs : \A k \in 1..MaxConcurrency : WF_vars(SubmitResolves(r, k))
  /\ \A r \in Runs : WF_vars(SleepDone(r))
  /\ \A r \in Runs : \A k \in 1..MaxCount : WF_vars(ConfirmResolves(r, k))

FairSpec == Spec /\ Fairness

\* the tester run with any config, the RunConfig invariant kept or not
AcceptedSpec == InitAccepted /\ [][Next]_vars

\* ------------------------------------------------------------- claims --
EventsOf(type) == {events[i] : i \in {j \in DOMAIN events : events[j].type = type}}

Sum(m) == m.successfulTransactions + m.failedTransactions + m.pendingTransactions

NonEmptyText(error) == error # {} /\ "" \notin error

\* the outcomes of submissions the latest task handled or that stand settled
\* in a batch not yet counted
SubmitOutcomes ==
  UNION {{e.items[k] : k \in DOMAIN e.items} : e \in EventsOf("counted")}
  \cup UNION {{batch[r][k] : k \in {j \in DOMAIN batch[r] :
                                       batch[r][j].status # "inflight"}} : r \in Runs}

\* the outcomes of confirmation waits the latest task handled or that stand
\* settled among waits not yet counted
WaitOutcomes ==
  UNION {{e.items[k] : k \in DOMAIN e.items} : e \in EventsOf("confirmations")}
  \cup UNION {{waits[r][k] : k \in {j \in DOMAIN waits[r] :
                                       waits[r][j].status # "waiting"}} : r \in Runs}

\* C1: the nonces put into transaction requests are strictly increasing in
\* the order the submissions were issued (hence pairwise distinct), over all
\* batches and whatever the order in which the sends complete; each was
\* drawn in the task that issued its submission, so the counter is already
\* past every nonce assigned.
C1_NoncesStrictlyIncreasing ==
  /\ \A i, j \in DOMAIN assigned : i < j => assigned[i] < assigned[j]
  /\ \A i \in DOMAIN assigned : assigned[i] < nonce
  /\ \A r \in Runs : \A k \in DOMAIN batch[r] :
       batch[r][k].nonce \subseteq {assigned[i] : i \in DOMAIN assigned}

\* a batch of two whose second send completed before its first
C1_Witness ==
  /\ Len(assigned) >= 2
  /\ \E r \in Runs : /\ Len(batch[r]) = 2
                     /\ batch[r][1].status = "inflight"
                     /\ batch[r][2].status = "pending"

\* C2 (as claimed): when executeConcurrentTransactions has returned, success
\* + failed + pending = totalTransactions and totalTransactions is the
\* configured transactionCount.
C2_DispatchedCountsAsClaimed ==
  \A e \in EventsOf("dispatched") :
     /\ Sum(e.metrics) = e.metrics.totalTransactions
     /\ e.metrics.totalTransactions = config.transactionCount

\* C3 (as claimed): the metrics startLoadTest() returns have no pending
\* transaction.
C3_ReturnedNothingPendingAsClaimed ==
  \A e \in EventsOf("returned") : e.metrics.pendingTransactions = 0

\* C4: startLoadTest() is accepted only while the instance is not running; a
\* call made while it is running throws and changes no field of the tester,
\* of the sender or of any activation (no submission, no interval, the flag,
\* the start time, the counters and the ring as they were).
C4_StartWhileRunningRejected ==
  [][/\ EventsOf("accepted")' # {} => ~isRunning
     /\ EventsOf("threw")' # {} => (isRunning /\ UNCHANGED programVars)]_vars

\* a second startLoadTest() was rejected while the first run had a
\* submission in flight, later than it started
C4_Witness ==
  /\ EventsOf("threw") # {}
  /\ isRunning
  /\ now > startTime
  /\ \E r \in Runs : pc[r] = "batch"

\* the batch sizes of a dispatch of n transactions, c at a time
RECURSIVE ExpectedBatches(_, _)
ExpectedBatches(n, c) ==
  IF n <= 0 THEN <<>> ELSE <<Min(c, n)>> \o ExpectedBatches(n - c, c)

RECURSIVE SumSeq(_)
SumSeq(q) == IF q = <<>> THEN 0 ELSE Head(q) + SumSeq(Tail(q))

\* C5: once dispatch is over, the batches issued have had the sizes
\* min(concurrency, remaining) in order, which sum to transactionCount, there
\* were ceil(transactionCount / concurrency) of them, and sleep(100) was
\* called once after every batch but the last.
C5_BatchLayout ==
  \A r \in Runs : pc[r] \in {"confirm", "returned"} =>
     /\ batchLog[r] = ExpectedBatches(config.transactionCount, config.concurrency)
     /\ SumSeq(batchLog[r]) = config.transactionCount
     /\ Len(batchLog[r]) =
          (config.transactionCount + config.concurrency - 1) \div config.concurrency
     /\ pauses[r] = IF Len(batchLog[r]) = 0 THEN 0 ELSE Len(batchLog[r]) - 1

\* a dispatch of 3 transactions, 2 at a time, is over: batches of 2 and 1
C5_Witness ==
  /\ config.transactionCount = 3
  /\ config.concurrency = 2
  /\ \E r \in Runs : pc[r] \in {"confirm", "returned"} /\ pauses[r] = 1

\* C6: every sendTransaction call ends in an outcome: failed with hash ""
\* and a non-empty error text when building the request, the fee query or
\* the send threw, pending with a non-empty hash when the send went through;
\* and the lines that count a batch add its failed outcomes to
\* failedTransactions and its pending ones to pendingTransactions, nothing
\* else.
C6_SubmissionOutcomes ==
  /\ \A tx \in SubmitOutcomes :
       \/ tx.status = "failed" /\ tx.hash = 0 /\ NonEmptyText(tx.error)
       \/ tx.status = "pending" /\ tx.hash # 0 /\ tx.error = {}
  /\ \A e \in EventsOf("counted") :
       /\ e.metrics.failedTransactions
            = e.before.failedTransactions + Count(e.items, "failed")
       /\ e.metrics.pendingTransactions
            = e.before.pendingTransactions + Count(e.items, "pending")
       /\ e.metrics.successfulTransactions = e.before.successfulTransactions

\* a batch was counted in which one send failed with a value that is no
\* Error and the other went through
C6_Witness ==
  \E e \in EventsOf("counted") :
     /\ Len(e.items) = 2
     /\ e.items[1].status = "failed" /\ e.items[1].error = {"Unknown error"}
     /\ e.items[2].status = "pending"
     /\ e.metrics.failedTransactions = 1
     /\ e.metrics.pendingTransactions = 1

\* C7 (as claimed): a wait that ended without a usable receipt (the wait
\* threw, or the receipt was null) is failed, has an error text and has the
\* elapsed time as its confirmationTime.
C7_NoReceiptAsClaimed ==
  \A w \in WaitOutcomes : w.via \in {"threw", "null"} =>
     /\ w.status = "failed"
     /\ NonEmptyText(w.error)
     /\ w.confirmationTime = {w.at - w.start}

\* C7 (amended): every wait ends in an outcome; one that ended without a
\* usable receipt is failed and has an error text; its confirmationTime is
\* the elapsed time when the wait threw (timeout, transport error) and is
\* absent when the receipt was null.
C7_NoReceiptOutcomes ==
  /\ \A r \in Runs : \A k \in DOMAIN waits[r] :
       waits[r][k].status \in {"waiting", "success", "failed"}
  /\ \A w \in WaitOutcomes :
       /\ w.status \in {"success", "failed"}
       /\ w.via \in {"threw", "null"} =>
            /\ w.status = "failed"
            /\ NonEmptyText(w.error)
       /\ w.via = "threw" => w.confirmationTime = {w.at - w.start}
       /\ w.via = "null" => w.confirmationTime = {}

\* of two waits, one has thrown a second after it began and the other has
\* come back with a null receipt
C7_Witness ==
  \E w1, w2 \in WaitOutcomes :
     /\ w1.via = "threw" /\ w1.confirmationTime = {ClockStep}
     /\ w2.via = "null"

\* C8 (as claimed): every failed outcome of sendTransaction and of
\* waitForConfirmation carries an error text.
C8_FailedHasErrorAsClaimed ==
  /\ \A tx \in SubmitOutcomes : tx.status = "failed" => NonEmptyText(tx.error)
  /\ \A w \in WaitOutcomes : w.status = "failed" => NonEmptyText(w.error)

\* C9 (as claimed): the interval started with the run is cleared only after
\* confirmation tracking: during the confirmation phase of a run with
\* realTimeStats it is still set.
C9_TicksThroughConfirmationAsClaimed ==
  \A r \in Runs : (pc[r] = "confirm" /\ config.realTimeStats) => monitoring[r]

\* C10 (as claimed): the peakTPS of the returned metrics is at least the tps
\* of every snapshot taken during the run, and 0 when none was taken.
C10_PeakCoversEverySnapshotAsClaimed ==
  \A e \in EventsOf("returned") :
     /\ \A t \in ticked[e.run] : Leq(t, e.metrics.peakTPS)
     /\ ticked[e.run] = {} => e.metrics.peakTPS = Zero

\* C11 (as claimed): in the metrics of every completed run, averageTPS *
\* totalDuration = successfulTransactions * 1000, with totalDuration the
\* time from the run's start to its end, a run of 0 ms and a second run on
\* the instance included.
C11_AverageThroughputAsClaimed ==
  \A e \in EventsOf("returned") :
     /\ e.metrics.totalDuration = e.metrics.endTime - e.metrics.startTime
     /\ e.metrics.averageTPS.num * e.metrics.totalDuration
          = e.metrics.successfulTransactions * 1000 * e.metrics.averageTPS.den

\* C12 (as claimed): the counters are zero when a run starts, so the metrics
\* of a completed run have totalTransactions = transactionCount and success
\* + failed = transactionCount, on a second run as on the first.
C12_CountersPerRunAsClaimed ==
  /\ \A e \in EventsOf("accepted") :
       /\ e.metrics.totalTransactions = 0
       /\ Sum(e.metrics) = 0
  /\ \A e \in EventsOf("returned") :
       /\ e.metrics.totalTransactions = config.transactionCount
       /\ e.metrics.successfulTransactions + e.metrics.failedTransactions
            = config.transactionCount

\* C13 (as claimed, for the operations of the instance): once
\* startLoadTest() has returned its metrics, no later step changes any field
\* of the value returned.
C13_ReturnedValueImmutableAsClaimed ==
  [][(\E r \in Runs : pc[r] = "returned") => ReturnedValue' = ReturnedValue]_vars

\* C14: a stopLoadTest() that finds the instance running clears isRunning,
\* records the end time and emits 'stopped', and touches nothing else: every
\* send and every confirmation wait in flight stays in flight, with its
\* activation at the await that takes its outcome (stopped or not), and the
\* lines that count the confirmations apply every outcome to the counters.
C14_StopCancelsNothing ==
  [][/\ EventsOf("stopped")' # {} =>
          /\ isRunning /\ ~isRunning'
          /\ endTime' = now
          /\ metrics' = [metrics EXCEPT !.endTime = now]
          /\ UNCHANGED <<config, nonce, startTime, tpsSnapshots, starts, pc,
                         loopI, results, batch, waits, monitoring, nextTick>>
     /\ \A r \in Runs :
          /\ (\E k \in DOMAIN batch[r]' : batch[r][k]'.status = "inflight")
                => pc[r]' = "batch"
          /\ (\E k \in DOMAIN waits[r]' : waits[r][k]'.status = "waiting")
                => pc[r]' = "confirm"
     /\ \A e \in EventsOf("confirmations")' :
          /\ e.metrics.successfulTransactions
               = e.before.successfulTransactions + Count(e.items, "success")
          /\ e.metrics.failedTransactions
               = e.before.failedTransactions + Count(e.items, "failed")
          /\ e.metrics.pendingTransactions
               = e.before.pendingTransactions - Len(e.items)]_vars

\* the confirmations of a run that was stopped during its dispatch have been
\* counted: its transaction is a success
C14_Witness ==
  \E e \in EventsOf("confirmations") :
     /\ e.run \in stopped
     /\ Count(e.items, "success") = 1
     /\ e.metrics.successfulTransactions = e.before.successfulTransactions + 1

\* C15 (as claimed): a run that stopLoadTest() has stopped is never
\* completed afterwards: no 'completed' event is emitted for it (and so the
\* end time that stopLoadTest() recorded is not written again).
C15_StoppedNeverCompletedAsClaimed ==
  \A e \in EventsOf("completed") : e.run \notin stopped

\* C16: a stopLoadTest() that finds no run active emits nothing and changes
\* no field (isRunning, endTime, the counters, the ring); 'stopped' is emitted
\* only by a call that found the instance running, and leaves it not
\* running, so that a second stopLoadTest() right after is such a call.
C16_StopWhileIdleIsNoOp ==
  [][/\ EventsOf("ignored")' # {} =>
          (~isRunning /\ EventsOf("stopped")' = {} /\ UNCHANGED programVars)
     /\ EventsOf("stopped")' # {} => (isRunning /\ ~isRunning')]_vars

\* stopLoadTest() was ignored, later than the end time on record, while an
\* activation stopped earlier is still waiting for a confirmation
C16_Witness ==
  /\ EventsOf("ignored") # {}
  /\ now > endTime
  /\ \E r \in stopped : pc[r] = "confirm"

\* the sendTransaction calls made so far, over all activations
RECURSIVE Attempts(_)
Attempts(rs) ==
  IF rs = {} THEN 0
  ELSE LET r == CHOOSE x \in rs : TRUE
       IN SumSeq(batchLog[r]) + Attempts(rs \ {r})

\* C17 (as claimed): every sendTransaction call draws one nonce, whatever
\* its outcome: the counter is its seed plus the number of calls made, and
\* every outcome, failed ones included, has a nonce drawn for it.
C17_EveryAttemptDrawsANonceAsClaimed ==
  /\ nonce = Attempts(Runs)
  /\ Len(assigned) = Attempts(Runs)
  /\ \A tx \in SubmitOutcomes : tx.nonce # {}

\* C18: getMetrics() changes no field of the instance, of its sender or of
\* any activation, and returns the fields of this.metrics as they are; so
\* two calls between which nothing else ran return equal values.
C18_GetMetricsIsPureRead ==
  [][\A e \in EventsOf("metrics")' :
        /\ UNCHANGED programVars
        /\ e.metrics = metrics
        /\ \A d \in EventsOf("metrics") : d.metrics = e.metrics]_vars

\* getMetrics() was called a second after the start of a run, with a
\* transaction awaiting its receipt
C18_Witness ==
  /\ \E e \in EventsOf("metrics") : e.metrics.pendingTransactions = 1
  /\ isRunning
  /\ now > startTime

Resolved(txs) == \A k \in DOMAIN txs : txs[k].status \in {"pending", "failed"}

\* C19: an activation has at most one batch in flight: while it awaits a
\* batch, every submission of its earlier batches has resolved and stands
\* in results, and the batch in flight is the last one issued; no task
\* issues two batches of an activation, and a batch is counted, all its
\* submissions resolved and totalTransactions raised by its size, after its
\* issue and before the sleep or the loop test that leads to the next.
C19_BatchesSerialized ==
  /\ \A r \in Runs :
       /\ Resolved(results[r])
       /\ pc[r] = "batch" =>
            /\ Len(results[r]) = loopI[r]
            /\ Len(results[r]) + Len(batch[r]) = SumSeq(batchLog[r])
            /\ Len(batch[r]) = batchLog[r][Len(batchLog[r])]
       /\ pc[r] = "sleep" =>
            /\ batch[r] = <<>>
            /\ Len(results[r]) = SumSeq(batchLog[r])
  /\ \A i, j \in DOMAIN events :
       (/\ i # j /\ events[i].run = events[j].run
        /\ events[i].type = "issued") =>
          /\ events[j].type # "issued"
          /\ events[j].type = "counted" =>
               /\ i < j
               /\ Len(events[j].items) = Len(events[i].items)
  /\ \A e \in EventsOf("counted") :
       /\ Resolved(e.items)
       /\ e.metrics.totalTransactions
            = e.before.totalTransactions + Len(e.items)

\* the second batch of an activation is in flight, the two submissions of
\* its first batch resolved (one failed) and counted
C19_Witness ==
  \E r \in Runs :
     /\ pc[r] = "batch"
     /\ Len(batchLog[r]) = 2
     /\ Len(results[r]) = 2
     /\ results[r][1].status = "failed" /\ results[r][2].status = "pending"
     /\ metrics.totalTransactions = 2

\* the nonces of a sequence of outcomes, in its order
RECURSIVE NoncesOf(_)
NoncesOf(txs) ==
  IF txs = <<>> THEN <<>>
  ELSE (IF Head(txs).nonce = {} THEN <<>>
        ELSE <<CHOOSE n \in Head(txs).nonce : TRUE>>) \o NoncesOf(Tail(txs))

Counters(m) ==
  <<m.totalTransactions, m.successfulTransactions, m.failedTransactions,
    m.pendingTransactions>>

\* C21: when the dispatch of a run is over, one wait is started for every
\* pending outcome, in order and on its hash, and none for a failed one (so
\* none on the empty hash); all of them are started in that task, before
\* any is awaited; with no pending outcome no wait is started, no
\* confirmation is counted and the run ends with the counters as dispatch
\* left them.
C21_OneWaitPerPending ==
  /\ \A r \in Runs :
       /\ pc[r] # "confirm" => waits[r] = <<>>
       /\ \A k \in DOMAIN waits[r] :
            /\ waits[r][k].hash # 0
            /\ waits[r][k].start = waits[r][1].start
            /\ \A j \in DOMAIN waits[r] :
                 j # k => waits[r][j].hash # waits[r][k].hash
  /\ \A e \in EventsOf("dispatched") :
       LET pendingTxs == SelectSeq(e.items, LAMBDA t : t.status = "pending") IN
       IF pendingTxs = <<>>
       THEN /\ waits[e.run] = <<>>
            /\ pc[e.run] = "returned"
            /\ \A c \in EventsOf("confirmations") : c.run # e.run
            /\ \A c \in EventsOf("completed") :
                 c.run = e.run => Counters(c.metrics) = Counters(e.metrics)
       ELSE /\ pc[e.run] = "confirm"
            /\ Len(waits[e.run]) = Len(pendingTxs)
            /\ \A k \in DOMAIN pendingTxs :
                 /\ waits[e.run][k].hash = pendingTxs[k].hash
                 /\ waits[e.run][k].status = "waiting"
                 /\ waits[e.run][k].start = now

\* a dispatch of 3 is over whose first submission failed: two waits stand
\* started, on the hashes of the second and the third
C21_Witness ==
  \E e \in EventsOf("dispatched") :
     /\ Len(e.items) = 3
     /\ e.items[1].status = "failed"
     /\ Len(waits[e.run]) = 2
     /\ waits[e.run][1].hash = e.items[2].hash
     /\ waits[e.run][2].hash = e.items[3].hash

\* the block numbers of the successful outcomes among ws, in order, and the
\* gas they used
RECURSIVE SuccessBlocks(_), SuccessGas(_)
SuccessBlocks(ws) ==
  IF ws = <<>> THEN <<>>
  ELSE (IF Head(ws).status = "success"
        THEN <<CHOOSE b \in Head(ws).blockNumber : TRUE>> ELSE <<>>)
       \o SuccessBlocks(Tail(ws))
SuccessGas(ws) ==
  IF ws = <<>> THEN 0
  ELSE (IF Head(ws).status = "success"
        THEN CHOOSE g \in Head(ws).gasUsed : TRUE ELSE 0) + SuccessGas(Tail(ws))

Distinct(q) == Cardinality({q[k] : k \in DOMAIN q})

\* C22 (as claimed): a confirmation pass moves every success from pending
\* to success and adds its gas used and its block number to the totals, and
\* every failure from pending to failed; so the uniqueBlocks of the metrics
\* returned is the number of distinct block numbers recorded, which on a
\* first run is the number of distinct blocks of its successful outcomes,
\* block 0 included.
C22_BlocksOfSuccessesAsClaimed ==
  /\ \A e \in EventsOf("confirmations") :
       /\ e.metrics.successfulTransactions
            = e.before.successfulTransactions + Count(e.items, "success")
       /\ e.metrics.failedTransactions
            = e.before.failedTransactions + Count(e.items, "failed")
       /\ e.metrics.pendingTransactions
            = e.before.pendingTransactions - Len(e.items)
       /\ e.metrics.gasUsedTotal = e.before.gasUsedTotal + SuccessGas(e.items)
       /\ e.metrics.blockNumbers = e.before.blockNumbers \o SuccessBlocks(e.items)
  /\ \A e \in EventsOf("returned") :
       /\ e.metrics.uniqueBlocks = Distinct(e.metrics.blockNumbers)
       /\ starts = 1 =>
            \A c \in EventsOf("confirmations") :
               e.metrics.uniqueBlocks = Distinct(SuccessBlocks(c.items))

C24_TicksOnlyWhileRunningAsClaimed ==
  \A e \in EventsOf("stats") :
     /\ isRunning
     /\ e.run \notin stopped
     /\ pc[e.run] \in {"batch", "sleep", "confirm"}

\* C25: with a concurrency of 1 or more, when every send and every
\* confirmation wait settles, every activation that was started returns,
\* stopped meanwhile or not; it emits 'completed' in the task in which it
\* returns and in no other, so once; that task leaves isRunning false; and
\* an activation that has returned stays returned.
C25_StartedRunFinishes ==
  /\ \A r \in Runs :
       (config.concurrency >= 1 /\ pc[r] \in {"batch", "sleep", "confirm"})
          ~> (pc[r] = "returned")
  /\ [][\A r \in Runs :
          LET returns == pc[r] # "returned" /\ pc[r]' = "returned" IN
          /\ returns <=> (\E e \in EventsOf("completed")' : e.run = r)
          /\ returns <=> (\E e \in EventsOf("returned")' : e.run = r)
          /\ returns => ~isRunning'
          /\ pc[r] = "returned" => pc[r]' = "returned"]_vars

\* an activation that stopLoadTest() had stopped has completed, after a
\* pause between its two batches and a confirmation wait
C25_Witness ==
  \E e \in EventsOf("completed") :
     /\ e.run \in stopped
     /\ pauses[e.run] = 1
     /\ EventsOf("confirmations") # {}
     /\ ~isRunning

\* the activations in their dispatch or confirmation phase
Executing == {r \in Runs : pc[r] \in {"batch", "sleep", "confirm"}}

\* C26 (as claimed): at most one activation is in its dispatch or
\* confirmation phase; a startLoadTest() is accepted only when no earlier
\* one is still executing, so the nonce counter, the counters and the ring
\* have one writer at a time.
C26_OneRunAtATimeAsClaimed ==
  /\ Cardinality(Executing) <= 1
  /\ \A e \in EventsOf("accepted") : Executing \subseteq {e.run}

Consistent(m) ==
  /\ Sum(m) = m.totalTransactions
  /\ \A k \in DOMAIN Counters(m) : Counters(m)[k] >= 0

\* C27: whenever a task has ended, and wherever a task reads or reports the
\* counters (a tick, getMetrics(), before and after the lines that count a
\* batch or a confirmation pass, at the end of the run), success + failed +
\* pending = totalTransactions and no counter is negative; a batch and a
\* confirmation pass are each counted within one task.
C27_CountersConsistent ==
  /\ Consistent(metrics)
  /\ \A i \in DOMAIN events :
       /\ Consistent(events[i].before)
       /\ Consistent(events[i].metrics)
  /\ \A e \in EventsOf("counted") \cup EventsOf("confirmations") :
       e.metrics.totalTransactions - e.before.totalTransactions
          = Sum(e.metrics) - Sum(e.before)

\* getMetrics() during the confirmation phase of a run of 3: one submission
\* failed, two await their receipts
C27_Witness ==
  /\ \E e \in EventsOf("metrics") :
       /\ e.metrics.totalTransactions = 3
       /\ e.metrics.failedTransactions = 1
       /\ e.metrics.pendingTransactions = 2
  /\ \E r \in Runs : pc[r] = "confirm"

\* C28 (as claimed): for every config startLoadTest() runs with, every
\* iteration of the dispatch loop issues at least one submission and leaves
\* fewer transactions to issue, so an activation makes at most
\* transactionCount iterations: also with a concurrency of 0 or less.
C28_DispatchProgressesAsClaimed ==
  \A r \in Runs :
     /\ \A k \in DOMAIN batchLog[r] : batchLog[r][k] >= 1
     /\ Len(batchLog[r]) <= config.transactionCount
     /\ pc[r] = "sleep" => loopI[r] + config.concurrency > loopI[r]

==========================================================================
